---------------------------- MODULE Spec2Model ----------------------------
(***************************************************************************)
(* A model of kidney.py: the field schema, the two validators, the         *)
(* encoder and the Streamlit script body main().                           *)
(*                                                                         *)
(* Representation.                                                         *)
(*   - A Python str is the record [k |-> "str", s |-> cs] where cs is the  *)
(*     sequence of its characters (one-character strings), so that         *)
(*     str.lower(), float(str) and the truth value of a str are computed   *)
(*     character by character.                                             *)
(*   - A Python float is a record: [k |-> "fin", m, e] is the decimal      *)
(*     m / 10^e (normalised: e = 0 or m not divisible by 10), and          *)
(*     k = "nan", "inf", "ninf" are the three non-finite doubles.          *)
(*     Comparisons are computed on the decimals exactly; the rounding of a *)
(*     double beyond 15 significant digits and overflow beyond 1e308 are   *)
(*     outside the inputs enumerated here.                                 *)
(*   - None is the record [k |-> "none"].                                  *)
(***************************************************************************)
EXTENDS Integers, Sequences, FiniteSets, TLC

None == [k |-> "none"]

\* The Python str whose characters are cs.
Str(cs) == [k |-> "str", s |-> cs]

(***************************************************************************)
(* Characters and strings                                                  *)
(***************************************************************************)
DigitChars == {"0", "1", "2", "3", "4", "5", "6", "7", "8", "9"}

DigitVal == "0" :> 0 @@ "1" :> 1 @@ "2" :> 2 @@ "3" :> 3 @@ "4" :> 4 @@
            "5" :> 5 @@ "6" :> 6 @@ "7" :> 7 @@ "8" :> 8 @@ "9" :> 9

DigitChar == <<"0", "1", "2", "3", "4", "5", "6", "7", "8", "9">>

UpperToLower ==
    "A" :> "a" @@ "B" :> "b" @@ "C" :> "c" @@ "D" :> "d" @@ "E" :> "e" @@
    "F" :> "f" @@ "G" :> "g" @@ "H" :> "h" @@ "I" :> "i" @@ "J" :> "j" @@
    "K" :> "k" @@ "L" :> "l" @@ "M" :> "m" @@ "N" :> "n" @@ "O" :> "o" @@
    "P" :> "p" @@ "Q" :> "q" @@ "R" :> "r" @@ "S" :> "s" @@ "T" :> "t" @@
    "U" :> "u" @@ "V" :> "v" @@ "W" :> "w" @@ "X" :> "x" @@ "Y" :> "y" @@
    "Z" :> "z"

LowerToUpper ==
    "a" :> "A" @@ "b" :> "B" @@ "c" :> "C" @@ "d" :> "D" @@ "e" :> "E" @@
    "f" :> "F" @@ "g" :> "G" @@ "h" :> "H" @@ "i" :> "I" @@ "j" :> "J" @@
    "k" :> "K" @@ "l" :> "L" @@ "m" :> "M" @@ "n" :> "N" @@ "o" :> "O" @@
    "p" :> "P" @@ "q" :> "Q" @@ "r" :> "R" @@ "s" :> "S" @@ "t" :> "T" @@
    "u" :> "U" @@ "v" :> "V" @@ "w" :> "W" @@ "x" :> "X" @@ "y" :> "Y" @@
    "z" :> "Z"

\* str.lower(): every cased character is replaced by its lower-case form.
lower(v) ==
    Str([i \in 1..Len(v.s) |->
            IF v.s[i] \in DOMAIN UpperToLower THEN UpperToLower[v.s[i]] ELSE v.s[i]])

\* str.upper(), used only to enumerate case variants of the inputs.
upper(v) ==
    Str([i \in 1..Len(v.s) |->
            IF v.s[i] \in DOMAIN LowerToUpper THEN LowerToUpper[v.s[i]] ELSE v.s[i]])

WhiteChars == {" "}

RECURSIVE lstrip(_)
lstrip(s) == IF s # <<>> /\ Head(s) \in WhiteChars THEN lstrip(Tail(s)) ELSE s

RECURSIVE rstrip(_)
rstrip(s) ==
    IF s # <<>> /\ s[Len(s)] \in WhiteChars THEN rstrip(SubSeq(s, 1, Len(s) - 1)) ELSE s

strip(s) == rstrip(lstrip(s))

(***************************************************************************)
(* Floats                                                                  *)
(***************************************************************************)
RECURSIVE Pow10(_)
Pow10(n) == IF n <= 0 THEN 1 ELSE 10 * Pow10(n - 1)

RECURSIVE Normalise(_, _)
Normalise(m, e) ==
    IF e > 0 /\ m % 10 = 0 THEN Normalise(m \div 10, e - 1) ELSE [k |-> "fin", m |-> m, e |-> e]

\* The float m / 10^e.
Dec(m, e) == Normalise(m, e)

NaN == [k |-> "nan", m |-> 0, e |-> 0]
PosInf == [k |-> "inf", m |-> 0, e |-> 0]
NegInf == [k |-> "ninf", m |-> 0, e |-> 0]

\* x < y on floats: every comparison with a NaN is false.
FloatLT(x, y) ==
    CASE x.k = "nan" \/ y.k = "nan" -> FALSE
      [] x.k = "ninf" -> y.k # "ninf"
      [] x.k = "inf" -> FALSE
      [] y.k = "ninf" -> FALSE
      [] y.k = "inf" -> TRUE
      [] OTHER -> x.m * Pow10(y.e) < y.m * Pow10(x.e)

\* x > y on floats.
FloatGT(x, y) == FloatLT(y, x)

ValueError == [k |-> "ValueError"]

RECURSIVE NatOf(_)
NatOf(ds) ==
    IF ds = <<>> THEN 0 ELSE 10 * NatOf(SubSeq(ds, 1, Len(ds) - 1)) + DigitVal[ds[Len(ds)]]

AllDigits(s) == \A i \in 1..Len(s) : s[i] \in DigitChars

\* Index of the first character of s that is in cs, or 0.
FirstIn(s, cs) ==
    IF \E i \in 1..Len(s) : s[i] \in cs
    THEN CHOOSE i \in 1..Len(s) : s[i] \in cs /\ \A j \in 1..(i - 1) : s[j] \notin cs
    ELSE 0

\* m / 10^sh for any integer sh.
Scaled(m, sh) == IF sh >= 0 THEN Dec(m, sh) ELSE Dec(m * Pow10(0 - sh), 0)

Signed(s) == s # <<>> /\ s[1] \in {"+", "-"}

Negative(s) == s # <<>> /\ s[1] = "-"

Unsigned(s) == IF Signed(s) THEN Tail(s) ELSE s

\* The decimal literal, split: integer digits ip, fraction digits fp and, if
\* hasExp, the exponent expo = [sign] digits.  The mantissa needs a digit.
ParseParts(neg, ip, fp, hasExp, expo) ==
    IF /\ AllDigits(ip) /\ AllDigits(fp) /\ Len(ip) + Len(fp) > 0
       /\ (hasExp => (Unsigned(expo) # <<>> /\ AllDigits(Unsigned(expo))))
    THEN Scaled(IF neg THEN 0 - NatOf(ip \o fp) ELSE NatOf(ip \o fp),
                IF Negative(expo) THEN Len(fp) + NatOf(Unsigned(expo))
                ELSE Len(fp) - NatOf(Unsigned(expo)))
    ELSE ValueError

\* The mantissa split at its first ".", at index dot (0: none).
ParseMantissa(neg, mant, dot, hasExp, expo) ==
    IF dot = 0
    THEN ParseParts(neg, mant, <<>>, hasExp, expo)
    ELSE ParseParts(neg, SubSeq(mant, 1, dot - 1), SubSeq(mant, dot + 1, Len(mant)),
                    hasExp, expo)

\* The literal split at its first "e" or "E", at index ePos (0: none).
ParseExponent(neg, body, ePos) ==
    IF ePos = 0
    THEN ParseMantissa(neg, body, FirstIn(body, {"."}), FALSE, <<>>)
    ELSE ParseMantissa(neg, SubSeq(body, 1, ePos - 1),
                       FirstIn(SubSeq(body, 1, ePos - 1), {"."}),
                       TRUE, SubSeq(body, ePos + 1, Len(body)))

\* The decimal literal: digits [ "." digits ] [ ("e"|"E") [sign] digits ].
ParseDecimal(neg, body) == ParseExponent(neg, body, FirstIn(body, {"e", "E"}))

\* The unsigned part of the literal, with its lower-case form.
ParseUnsigned(neg, body, low) ==
    IF low = <<"n", "a", "n">> THEN NaN
    ELSE IF low \in {<<"i", "n", "f">>, <<"i", "n", "f", "i", "n", "i", "t", "y">>}
         THEN IF neg THEN NegInf ELSE PosInf
    ELSE ParseDecimal(neg, body)

ParseStripped(s) == ParseUnsigned(Negative(s), Unsigned(s), lower(Str(Unsigned(s))).s)

\* float(str): surrounding white space is ignored, then an optional sign, then
\* "nan", "inf", "infinity" in any case, or a decimal literal.
float(value) == ParseStripped(strip(value.s))

(***************************************************************************)
(* The schema (kidney.py lines 38-88)                                      *)
(***************************************************************************)
normal == Str(<<"n", "o", "r", "m", "a", "l">>)
abnormal == Str(<<"a", "b", "n", "o", "r", "m", "a", "l">>)
present == Str(<<"p", "r", "e", "s", "e", "n", "t">>)
notpresent == Str(<<"n", "o", "t", "p", "r", "e", "s", "e", "n", "t">>)
yes == Str(<<"y", "e", "s">>)
no == Str(<<"n", "o">>)
good == Str(<<"g", "o", "o", "d">>)
poor == Str(<<"p", "o", "o", "r">>)

\* The Python int n; it equals the float of the same value.
int(n) == Dec(n, 0)

categorical_encodings ==
    [red_blood_cells |-> (normal :> int(1) @@ abnormal :> int(0)),
     pus_cell |-> (normal :> int(1) @@ abnormal :> int(0)),
     pus_cell_clumps |-> (present :> int(1) @@ notpresent :> int(0)),
     bacteria |-> (present :> int(1) @@ notpresent :> int(0)),
     hypertension |-> (yes :> int(1) @@ no :> int(0)),
     diabetes_mellitus |-> (yes :> int(1) @@ no :> int(0)),
     coronary_artery_disease |-> (yes :> int(1) @@ no :> int(0)),
     appetite |-> (good :> int(1) @@ poor :> int(0)),
     pedal_edema |-> (yes :> int(1) @@ no :> int(0)),
     anemia |-> (yes :> int(1) @@ no :> int(0))]

Numeric(lo, hi, label) == [type |-> "numeric", min |-> lo, max |-> hi, label |-> label]

Categorical(options, label) == [type |-> "categorical", options |-> options, label |-> label]

\* input_categories: the categories in declaration order, each with its fields in
\* declaration order.
input_categories ==
    << [name |-> "Demographic Data",
        fields |-> << <<"age", Numeric(Dec(0, 0), Dec(120, 0), "Age")>>,
                      <<"blood_pressure",
                        Numeric(Dec(50, 0), Dec(200, 0), "Blood Pressure (mm Hg)")>> >>],
       [name |-> "Laboratory Results",
        fields |-> << <<"specific_gravity",
                        Numeric(Dec(1005, 3), Dec(1025, 3), "Specific Gravity")>>,
                      <<"albumin", Numeric(Dec(0, 0), Dec(5, 0), "Albumin (g/dL)")>>,
                      <<"sugar", Numeric(Dec(0, 0), Dec(5, 0), "Sugar Level")>>,
                      <<"red_blood_cells",
                        Categorical(<<normal, abnormal>>, "Red Blood Cells")>>,
                      <<"pus_cell", Categorical(<<normal, abnormal>>, "Pus Cell")>>,
                      <<"pus_cell_clumps",
                        Categorical(<<present, notpresent>>, "Pus Cell Clumps")>>,
                      <<"bacteria", Categorical(<<present, notpresent>>, "Bacteria")>>,
                      <<"blood_glucose_random",
                        Numeric(Dec(70, 0), Dec(400, 0), "Blood Glucose Random (mg/dL)")>>,
                      <<"blood_urea",
                        Numeric(Dec(10, 0), Dec(200, 0), "Blood Urea (mg/dL)")>>,
                      <<"serum_creatinine",
                        Numeric(Dec(4, 1), Dec(15, 0), "Serum Creatinine (mg/dL)")>>,
                      <<"sodium", Numeric(Dec(100, 0), Dec(150, 0), "Sodium (mEq/L)")>>,
                      <<"potassium", Numeric(Dec(25, 1), Dec(7, 0), "Potassium (mEq/L)")>>,
                      <<"hemoglobin",
                        Numeric(Dec(35, 1), Dec(175, 1), "Hemoglobin (g/dL)")>>,
                      <<"packed_cell_volume",
                        Numeric(Dec(15, 0), Dec(55, 0), "Packed Cell Volume (%)")>>,
                      <<"white_blood_cell_count",
                        Numeric(Dec(2000, 0), Dec(30000, 0),
                                "White Blood Cell Count (/mm3)")>>,
                      <<"red_blood_cell_count",
                        Numeric(Dec(2, 0), Dec(8, 0),
                                "Red Blood Cell Count (millions/mm3)")>> >>],
       [name |-> "Medical History",
        fields |-> << <<"hypertension", Categorical(<<yes, no>>, "Hypertension")>>,
                      <<"diabetes_mellitus",
                        Categorical(<<yes, no>>, "Diabetes Mellitus")>>,
                      <<"coronary_artery_disease",
                        Categorical(<<yes, no>>, "Coronary Artery Disease")>>,
                      <<"appetite", Categorical(<<good, poor>>, "Appetite")>>,
                      <<"pedal_edema", Categorical(<<yes, no>>, "Pedal Edema")>>,
                      <<"anemia", Categorical(<<yes, no>>, "Anemia")>> >>] >>

\* category.keys(): the field names of a category, in declaration order.
keys(category) == [i \in 1..Len(category.fields) |-> category.fields[i][1]]

RECURSIVE ExtendAll(_, _)
ExtendAll(acc, cats) ==
    IF cats = <<>> THEN acc ELSE ExtendAll(acc \o keys(Head(cats)), Tail(cats))

\* input_fields: the flat list of field names, categories in order.
input_fields == ExtendAll(<<>>, input_categories)

FieldNames == {input_fields[i] : i \in 1..Len(input_fields)}

\* dict.update with the (key, value) pairs of a category.
RECURSIVE update(_, _)
update(d, fields) ==
    IF fields = <<>> THEN d
    ELSE update((Head(fields)[1] :> Head(fields)[2]) @@ d, Tail(fields))

RECURSIVE UpdateAll(_, _)
UpdateAll(d, cats) ==
    IF cats = <<>> THEN d ELSE UpdateAll(update(d, Head(cats).fields), Tail(cats))

\* all_fields of main(): name -> field_info, over every category.
all_fields == UpdateAll(<<>>, input_categories)

\* The elements of a Python list.
Elems(list) == {list[i] : i \in 1..Len(list)}

(***************************************************************************)
(* Validators and encoder (kidney.py lines 23-35, 90-94)                   *)
(***************************************************************************)
Message(code, label) == [k |-> "msg", code |-> code, label |-> label]

\* Lines 26-28, with val the float that line 25 parsed (or its ValueError).
validate_parsed(val, min_val, max_val, field_name) ==
    IF val = ValueError
    THEN <<None, Message("should be a numeric value", field_name)>>
    ELSE IF FloatLT(val, min_val) \/ FloatGT(val, max_val)
         THEN <<None, Message("should be between", field_name)>>
         ELSE <<val, None>>

validate_numeric_input(value, min_val, max_val, field_name) ==
    validate_parsed(float(value), min_val, max_val, field_name)

\* A variant that compares without lower().
validate_categorical_input_cased(value, valid_options, field_name) ==
    IF value \notin Elems(valid_options)
    THEN <<None, Message("should be one of", field_name)>>
    ELSE <<value, None>>

validate_categorical_input(value, valid_options, field_name) ==
    IF lower(value) \notin Elems(valid_options)
    THEN <<None, Message("should be one of", field_name)>>
    ELSE <<lower(value), None>>

\* The outcome of a call that may raise: a returned value or an exception.
Return(v) == [raised |-> FALSE, ret |-> v]

Raise(exc) == [raised |-> TRUE, exc |-> exc]

\* float(value) of line 94.
to_float(parsed) == IF parsed = ValueError THEN Raise("ValueError") ELSE Return(parsed)

\* A variant without the lookup of line 93.
encode_input_unmapped(field_name, value) ==
    IF value.k = "str" THEN to_float(float(value)) ELSE Return(value)

encode_input(field_name, value) ==
    IF field_name \in DOMAIN categorical_encodings
    THEN IF value \in DOMAIN categorical_encodings[field_name]
         THEN Return(categorical_encodings[field_name][value])
         ELSE Raise("KeyError")
    ELSE IF value.k = "str" THEN to_float(float(value)) ELSE Return(value)

(***************************************************************************)
(* State                                                                   *)
(***************************************************************************)
VARIABLES
    artifact,        \* TRUE iff model/model_knn.sav exists
    model_cache,     \* st.cache_resource entry of load_model: Unset, or its value
    widgets,         \* the widget state of the form: field name -> str
    formRendered,    \* the last run of main() rendered the title and the form
    submitted,       \* the last run of main() was started by the Predict button
    messages,        \* st.error / st.success / st.warning calls of the last run
    validatorCalls,  \* calls of the two validators made by the last run
    predictCalls,    \* feature vectors passed to model.predict by the last run
    predicted,       \* what model.predict did in the last run (NotCalled if not called)
    valid_inputs,    \* valid_inputs of the last run
    has_errors,      \* has_errors of the last run
    escaped,         \* an exception propagated out of the last run of main()
    call             \* the last direct call of a validator or of the encoder

vars == <<artifact, model_cache, widgets, formRendered, submitted, messages,
          validatorCalls, predictCalls, predicted, valid_inputs, has_errors, escaped,
          call>>

KNN == [k |-> "model"]

Unset == [k |-> "unset"]

NoCall == [fn |-> "none"]

NotCalled == [raised |-> FALSE, called |-> FALSE]

Empty == Str(<<>>)

(***************************************************************************)
(* load_model (kidney.py lines 14-20)                                      *)
(***************************************************************************)
Display(level, code, label) == [level |-> level, code |-> code, label |-> label]

\* pickle.load(open('model/model_knn.sav', 'rb'))
open_and_load(exists) == IF exists THEN Return(KNN) ELSE Raise("FileNotFoundError")

\* The exception classes the except clause of load_model catches.
load_model_except == {"FileNotFoundError"}

\* A variant whose except clause does not match the exception of open().
load_model_try_unmatched(r) ==
    IF ~r.raised
    THEN [ret |-> r.ret, shown |-> <<>>, escaped |-> FALSE]
    ELSE [ret |-> None, shown |-> <<>>, escaped |-> TRUE]

\* The try statement of load_model, r the outcome of line 17: [ret, shown, escaped].
load_model_try(r) ==
    IF ~r.raised
    THEN [ret |-> r.ret, shown |-> <<>>, escaped |-> FALSE]
    ELSE IF r.exc \in load_model_except
         THEN [ret |-> None,
               shown |-> <<Display("error", "Model file not found", "")>>,
               escaped |-> FALSE]
         ELSE [ret |-> None, shown |-> <<>>, escaped |-> TRUE]

load_model_body(exists) == load_model_try(open_and_load(exists))

\* load_model under st.cache_resource: the body runs on the first call only; a
\* cached value is returned with the st elements of the body replayed.  A call
\* that raises caches nothing.
load_model(cache, exists) ==
    IF cache = Unset
    THEN load_model_body(exists)
    ELSE [ret |-> cache,
          shown |-> IF cache = None
                    THEN <<Display("error", "Model file not found", "")>>
                    ELSE <<>>,
          escaped |-> FALSE]

(***************************************************************************)
(* main (kidney.py lines 96-195)                                           *)
(***************************************************************************)
RECURSIVE CollectCategory(_, _, _)
CollectCategory(acc, fields, w) ==
    IF fields = <<>> THEN acc
    ELSE CollectCategory(Append(acc, <<Head(fields)[1], w[Head(fields)[1]]>>), Tail(fields), w)

RECURSIVE CollectInputs(_, _, _)
CollectInputs(acc, cats, w) ==
    IF cats = <<>> THEN acc
    ELSE CollectInputs(CollectCategory(acc, Head(cats).fields, w), Tail(cats), w)

\* input_values.items(): the (field_name, value) pairs in insertion order, which
\* is the order of the nested loops that render the form.
input_values(w) == CollectInputs(<<>>, input_categories, w)

\* `not value` for a str.
not(value) == value.s = <<>>

\* Lines 168-172: the result <<val, error>> of the validator `fn` is recorded.
ValidatedField(acc, fn, field_name, value, res) ==
    IF res[2] # None
    THEN [acc EXCEPT !.calls = Append(@, [fn |-> fn, field |-> field_name,
                                          value |-> value]),
                     !.messages = Append(@, Display("error", res[2].code, res[2].label)),
                     !.has_errors = TRUE]
    ELSE [acc EXCEPT !.calls = Append(@, [fn |-> fn, field |-> field_name,
                                          value |-> value]),
                     !.valid_inputs = (field_name :> res[1]) @@ @]

\* One iteration of the validation loop (lines 146-172).
ValidateField(acc, field_info, field_name, value) ==
    IF not(value)
    THEN [acc EXCEPT !.messages =
                         Append(@, Display("error", "Please fill in", field_info.label)),
                     !.has_errors = TRUE]
    ELSE IF field_info.type = "numeric"
    THEN ValidatedField(acc, "validate_numeric_input", field_name, value,
                        validate_numeric_input(value, field_info.min, field_info.max,
                                               field_info.label))
    ELSE ValidatedField(acc, "validate_categorical_input", field_name, value,
                        validate_categorical_input(value, field_info.options,
                                                   field_info.label))

RECURSIVE ValidateAll(_, _)
ValidateAll(acc, items) ==
    IF items = <<>> THEN acc
    ELSE ValidateAll(ValidateField(acc, all_fields[Head(items)[1]], Head(items)[1],
                                   Head(items)[2]),
                     Tail(items))

\* The list comprehension of line 177, element by element.
RECURSIVE Encoded(_, _)
Encoded(valid, fields) ==
    IF fields = <<>> THEN <<>>
    ELSE << IF Head(fields) \in DOMAIN valid
            THEN encode_input(Head(fields), valid[Head(fields)])
            ELSE Raise("KeyError") >> \o Encoded(valid, Tail(fields))

\* A variant that fills the vector back to front.
input_array_reversed(enc) == [i \in DOMAIN enc |-> enc[Len(enc) + 1 - i].ret]

\* input_array, when no element of the comprehension raised.
input_array(enc) == [i \in DOMAIN enc |-> enc[i].ret]

\* The exception the comprehension raises: that of its first failing element.
FirstRaised(enc) ==
    IF \E i \in DOMAIN enc : enc[i].raised
    THEN enc[CHOOSE i \in DOMAIN enc : enc[i].raised /\ \A j \in 1..(i - 1) : ~enc[j].raised]
    ELSE Return(None)

\* The exception classes the except clause around the prediction catches:
\* `except Exception`.
ExceptionClasses == {"ValueError", "KeyError", "TypeError", "RuntimeError"}

\* What model.predict may do with a vector: return a one-element array holding
\* a binary label, or raise.
PredictOutcomes == {Return(<<0>>), Return(<<1>>), Raise("ValueError")}

\* The outcomes to consider for a run: one is enough if predict is not called.
OutcomesFor(run) == IF run.atPredict THEN PredictOutcomes ELSE {Return(<<0>>)}

Disclaimer == Display("warning", "This prediction is for informational purposes only", "")

\* A variant with the two banners exchanged.
Banner_exchanged(prediction) ==
    << IF prediction[1] = 1
       THEN Display("error", "likely to have Chronic Kidney Disease", "")
       ELSE Display("success", "NOT likely to have Chronic Kidney Disease", ""),
       [level |-> "warning", code |-> "This prediction is for informational purposes only",
        label |-> ""] >>

\* Lines 183-193: the banner for the array model.predict returned.
Banner(prediction) ==
    << IF prediction[1] = 1
       THEN Display("success", "NOT likely to have Chronic Kidney Disease", "")
       ELSE Display("error", "likely to have Chronic Kidney Disease", ""),
       Disclaimer >>

\* A variant without the try statement: the exception leaves main().
Except_absent(run, exc) == [run EXCEPT !.escaped = TRUE]

\* The except clause of line 194 for the exception exc raised in the try body.
Except(run, exc) ==
    IF exc \in ExceptionClasses
    THEN [run EXCEPT !.messages =
                         Append(@, Display("error", "An error occurred during prediction",
                                           ""))]
    ELSE [run EXCEPT !.escaped = TRUE]

\* Line 180 is reached: model.predict is called with the vector.
CallPredict(run, vector) == [run EXCEPT !.predictCalls = <<vector>>, !.atPredict = TRUE]

\* Lines 175-180, enc being the outcomes of the elements of line 177 and `first`
\* the first exception among them.
Encode(run, enc, first) ==
    IF first.raised THEN Except(run, first.exc) ELSE CallPredict(run, input_array(enc))

NoRun(cache, shown) ==
    [model_cache |-> cache, formRendered |-> FALSE, messages |-> shown,
     validatorCalls |-> <<>>, predictCalls |-> <<>>, predicted |-> NotCalled,
     valid_inputs |-> <<>>, has_errors |-> FALSE, escaped |-> FALSE,
     atPredict |-> FALSE]

\* Lines 174-180, v being the outcome of the validation loop.
Validated(run, v, enc) ==
    IF v.has_errors
    THEN [run EXCEPT !.messages = v.messages, !.validatorCalls = v.calls,
                     !.valid_inputs = v.valid_inputs, !.has_errors = TRUE]
    ELSE Encode([run EXCEPT !.messages = v.messages, !.validatorCalls = v.calls,
                            !.valid_inputs = v.valid_inputs],
                enc, FirstRaised(enc))

\* Lines 136-180: the work done when the Predict button was clicked.
Submitted(run, v) == Validated(run, v, Encoded(v.valid_inputs, input_fields))

\* Lines 98-180, loaded being the outcome of load_model().
Loaded(cache, loaded, w, clicked) ==
    IF loaded.escaped
    THEN [NoRun(cache, loaded.shown) EXCEPT !.escaped = TRUE]
    ELSE IF loaded.ret = None
    THEN NoRun(loaded.ret, loaded.shown)
    ELSE IF ~clicked
    THEN [NoRun(loaded.ret, loaded.shown) EXCEPT !.formRendered = TRUE]
    ELSE Submitted([NoRun(loaded.ret, loaded.shown) EXCEPT !.formRendered = TRUE],
                   ValidateAll([messages |-> loaded.shown, calls |-> <<>>,
                                valid_inputs |-> <<>>, has_errors |-> FALSE],
                               input_values(w)))

\* main() up to the call of model.predict (or to its end, if the call is not
\* reached).  `clicked` is the value of st.form_submit_button.
main_to_predict(cache, exists, w, clicked) ==
    Loaded(cache, load_model(cache, exists), w, clicked)

\* Lines 180-195: the rest of main(), `result` being what model.predict does.
main_from_predict(run, result) ==
    IF ~run.atPredict THEN run
    ELSE IF result.raised THEN Except([run EXCEPT !.predicted = result], result.exc)
    ELSE [run EXCEPT !.predicted = result, !.messages = @ \o Banner(result.ret)]

(***************************************************************************)
(* What the user can enter                                                 *)
(***************************************************************************)
\* The most fields of a completed form that differ from the reference entry.
MaxBad == 1

RECURSIVE DigitsOf(_)
DigitsOf(n) ==
    IF n < 10 THEN <<DigitChar[n + 1]>> ELSE Append(DigitsOf(n \div 10), DigitChar[(n % 10) + 1])

\* The decimal numeral of a finite float, as typed into a text input.
Typed(d) ==
    LET mag == IF d.m < 0 THEN 0 - d.m ELSE d.m
        ip == DigitsOf(mag \div Pow10(d.e))
        fp == Tail(DigitsOf(Pow10(d.e) + (mag % Pow10(d.e))))
    IN  Str((IF d.m < 0 THEN <<"-">> ELSE <<>>) \o ip \o
            (IF d.e > 0 THEN <<".">> \o fp ELSE <<>>))

\* a + n, n an integer.
Plus(a, n) == Dec(a.m + n * Pow10(a.e), a.e)

\* a moved by n units of the decimal place after its last one.
Nudge(a, n) == Dec(a.m * 10 + n, a.e + 1)

\* The midpoint of a and b.
Mid(a, b) ==
    LET e == IF a.e > b.e THEN a.e ELSE b.e
    IN  Dec(5 * (a.m * Pow10(e - a.e) + b.m * Pow10(e - b.e)), e + 1)

Blank == Str(<<" ">>)

\* What the user may type into the text input of a numeric field.
TextChoices(info) ==
    {Empty, Blank, Str(<<"a", "b", "c">>), Str(<<"n", "a", "n">>),
     Typed(info.min), Typed(info.max), Typed(Plus(info.min, -1)), Typed(Plus(info.max, 1)),
     Typed(Mid(info.min, info.max))}

\* What st.selectbox can return: options=[''] + list(field_info['options']).
SelectChoices(info) == {Empty} \cup Elems(info.options)

WidgetChoices(f) ==
    IF all_fields[f].type = "categorical"
    THEN SelectChoices(all_fields[f])
    ELSE TextChoices(all_fields[f])

\* A valid value of a field: a mid-range number, the first option of a select.
ReferenceValue(info) ==
    IF info.type = "categorical" THEN info.options[1] ELSE Typed(Mid(info.min, info.max))

RECURSIVE ReferenceOf(_, _)
ReferenceOf(d, names) ==
    IF names = <<>> THEN d
    ELSE ReferenceOf((Head(names) :> ReferenceValue(all_fields[Head(names)])) @@ d, Tail(names))

\* A complete, valid entry.
Reference == ReferenceOf(<<>>, input_fields)

\* The forms explored: the reference entry typed in field by field from an empty
\* form, and completed forms that differ from it in at most MaxBad fields.
Explored(w) ==
    \/ Cardinality({f \in FieldNames : w[f] # Reference[f]}) <= MaxBad
    \/ /\ \A f \in FieldNames : w[f] \in {Empty, Reference[f]}
       /\ \A i \in 1..(Len(input_fields) - 1) :
             w[input_fields[i]] = Empty => w[input_fields[i + 1]] = Empty

(***************************************************************************)
(* The application                                                         *)
(***************************************************************************)
Init ==
    /\ artifact \in BOOLEAN
    /\ model_cache = Unset
    /\ widgets = [f \in FieldNames |-> Empty]
    /\ formRendered = FALSE
    /\ submitted = FALSE
    /\ messages = <<>>
    /\ validatorCalls = <<>>
    /\ predictCalls = <<>>
    /\ predicted = NotCalled
    /\ valid_inputs = <<>>
    /\ has_errors = FALSE
    /\ escaped = FALSE
    /\ call = NoCall

\* The user changes one widget of the rendered form.  Inside st.form this runs
\* nothing; the record of the previous run is dropped when editing starts.
Edit(f, v) ==
    /\ formRendered
    /\ widgets[f] # v
    /\ Explored([widgets EXCEPT ![f] = v])
    /\ widgets' = [widgets EXCEPT ![f] = v]
    /\ submitted' = FALSE
    /\ messages' = <<>>
    /\ validatorCalls' = <<>>
    /\ predictCalls' = <<>>
    /\ predicted' = NotCalled
    /\ valid_inputs' = <<>>
    /\ has_errors' = FALSE
    /\ UNCHANGED <<artifact, model_cache, formRendered, escaped, call>>

\* One run of main(): the load of the page (clicked = FALSE) or a click on
\* Predict, which needs the form on the page.
Main(clicked) ==
    /\ clicked => formRendered
    /\ \E run \in {main_to_predict(model_cache, artifact, widgets, clicked)} :
       \E result \in OutcomesFor(run) :
       \E r \in {main_from_predict(run, result)} :
          /\ model_cache' = r.model_cache
          /\ formRendered' = r.formRendered
          /\ submitted' = clicked
          /\ messages' = r.messages
          /\ validatorCalls' = r.validatorCalls
          /\ predictCalls' = r.predictCalls
          /\ predicted' = r.predicted
          /\ valid_inputs' = r.valid_inputs
          /\ has_errors' = r.has_errors
          /\ escaped' = r.escaped
    /\ UNCHANGED <<artifact, widgets, call>>

Next ==
    \/ \E f \in FieldNames : \E v \in WidgetChoices(f) : Edit(f, v)
    \/ \E clicked \in BOOLEAN : Main(clicked)

Spec == Init /\ [][Next]_vars

(***************************************************************************)
(* The validators and the encoder called on their own                      *)
(***************************************************************************)
Capitalised(v) == Str(<<upper(v).s[1]>> \o Tail(v.s))

\* v with the character at index i in upper case.
UpperAt(v, i) == Str([v.s EXCEPT ![i] = upper(v).s[i]])

CaseVariants(v) == {v, upper(v), Capitalised(v)} \cup {UpperAt(v, i) : i \in 1..Len(v.s)}

Options == {normal, abnormal, present, notpresent, yes, no, good, poor}

\* Strings passed to validate_categorical_input: the options of every field in
\* several cases, and strings that are no option of any field.
CategoricalArguments ==
    UNION {CaseVariants(o) : o \in Options}
    \cup {Empty, Blank, Str(<<"m", "a", "y", "b", "e">>), Str(<<" ", "y", "e", "s">>),
          Str(<<"y", "e", "s", " ">>), Str(<<"y", "e">>), Str(<<"n", "o", "n", "e">>)}

\* Strings passed to validate_numeric_input for a field: the bounds, their
\* neighbours one unit and one decimal place away, and other spellings.
NumericArguments(info) ==
    TextChoices(info)
    \cup {Typed(Nudge(info.min, -1)), Typed(Nudge(info.min, 1)),
          Typed(Nudge(info.max, -1)), Typed(Nudge(info.max, 1)),
          Str(<<" ">> \o Typed(info.min).s \o <<" ">>), Str(<<"+">> \o Typed(info.max).s),
          Str(Typed(info.max).s \o <<".", "0">>), Str(Typed(info.max).s \o <<"e", "0">>),
          Str(Typed(info.max).s \o <<"e", "1">>), Str(Typed(info.max).s \o <<"e">>),
          Str(<<"N", "a", "N">>), Str(<<"i", "n", "f">>), Str(<<"-", "i", "n", "f">>),
          Str(<<"I", "n", "f", "i", "n", "i", "t", "y">>), Str(<<"-">>), Str(<<".">>),
          Str(<<"1", ".", "2", ".", "3">>), Str(<<"1", "2", "a">>)}

CallValidateNumeric(f, value) ==
    /\ all_fields[f].type = "numeric"
    /\ call' = [fn |-> "validate_numeric_input", field |-> f, value |-> value,
                result |-> validate_numeric_input(value, all_fields[f].min,
                                                  all_fields[f].max, all_fields[f].label)]
    /\ UNCHANGED <<artifact, model_cache, widgets, formRendered, submitted, messages,
                   validatorCalls, predictCalls, predicted, valid_inputs, has_errors,
                   escaped>>

CallValidateCategorical(f, value) ==
    /\ all_fields[f].type = "categorical"
    /\ call' = [fn |-> "validate_categorical_input", field |-> f, value |-> value,
                result |-> validate_categorical_input(value, all_fields[f].options,
                                                      all_fields[f].label)]
    /\ UNCHANGED <<artifact, model_cache, widgets, formRendered, submitted, messages,
                   validatorCalls, predictCalls, predicted, valid_inputs, has_errors,
                   escaped>>

\* encode_input on the value a validator has just returned for a field.
CallEncodeInput ==
    /\ call.fn \in {"validate_numeric_input", "validate_categorical_input"}
    /\ call.result[2] = None
    /\ call' = [fn |-> "encode_input", field |-> call.field, value |-> call.result[1],
                result |-> encode_input(call.field, call.result[1])]
    /\ UNCHANGED <<artifact, model_cache, widgets, formRendered, submitted, messages,
                   validatorCalls, predictCalls, predicted, valid_inputs, has_errors,
                   escaped>>

NumericFields == {f \in FieldNames : all_fields[f].type = "numeric"}

CategoricalFields == {f \in FieldNames : all_fields[f].type = "categorical"}

FnNext ==
    \/ \E f \in NumericFields : \E value \in NumericArguments(all_fields[f]) :
          CallValidateNumeric(f, value)
    \/ \E f \in CategoricalFields : \E value \in CategoricalArguments :
          CallValidateCategorical(f, value)
    \/ CallEncodeInput

FnSpec == Init /\ [][FnNext]_vars

(***************************************************************************)
(* Vocabulary of the properties                                            *)
(***************************************************************************)
\* v is empty or consists of white space only.
IsBlank(v) == \A i \in 1..Len(v.s) : v.s[i] \in WhiteChars

\* The float x is a number of the closed interval [lo, hi].
InInterval(x, lo, hi) ==
    /\ x.k = "fin"
    /\ lo.m * Pow10(x.e) <= x.m * Pow10(lo.e)
    /\ x.m * Pow10(hi.e) <= hi.m * Pow10(x.e)

SameLetter(a, b) ==
    \/ a = b
    \/ a \in DOMAIN UpperToLower /\ UpperToLower[a] = b
    \/ b \in DOMAIN UpperToLower /\ UpperToLower[b] = a

\* a and b are equal up to the case of their letters.
SameIgnoringCase(a, b) ==
    /\ Len(a.s) = Len(b.s)
    /\ \A i \in 1..Len(a.s) : SameLetter(a.s[i], b.s[i])

\* The raw input of field f is blank, not a number, out of range or no option.
BadInput(f, raw) ==
    \/ IsBlank(raw)
    \/ /\ all_fields[f].type = "numeric"
       /\ \/ float(raw) = ValueError
          \/ ~InInterval(float(raw), all_fields[f].min, all_fields[f].max)
    \/ /\ all_fields[f].type = "categorical"
       /\ \A o \in Elems(all_fields[f].options) : ~SameIgnoringCase(raw, o)

BadFields == {f \in FieldNames : BadInput(f, widgets[f])}

\* The messages of the last run that report a field: they carry its label.
FieldErrors == {i \in DOMAIN messages : messages[i].level = "error" /\ messages[i].label # ""}

Shown(level, code) ==
    {i \in DOMAIN messages : messages[i].level = level /\ messages[i].code = code}

NotLikelyBanner == Shown("success", "NOT likely to have Chronic Kidney Disease")

LikelyBanner == Shown("error", "likely to have Chronic Kidney Disease")

PredictionFailed == Shown("error", "An error occurred during prediction")

ModelNotFound == Shown("error", "Model file not found")

\* The declaration order of the fields (kidney.py lines 54-81).
SchemaOrder ==
    <<"age", "blood_pressure", "specific_gravity", "albumin", "sugar", "red_blood_cells",
      "pus_cell", "pus_cell_clumps", "bacteria", "blood_glucose_random", "blood_urea",
      "serum_creatinine", "sodium", "potassium", "hemoglobin", "packed_cell_volume",
      "white_blood_cell_count", "red_blood_cell_count", "hypertension",
      "diabetes_mellitus", "coronary_artery_disease", "appetite", "pedal_edema", "anemia">>

\* The number a valid raw input of field f stands for.
EncodingOf(f, raw) ==
    IF all_fields[f].type = "numeric" THEN float(raw)
    ELSE IF lower(raw) = all_fields[f].options[1] THEN int(1) ELSE int(0)

(***************************************************************************)
(* Properties of main()                                                    *)
(***************************************************************************)
\* C1: in a submission, model.predict is called only if all 24 fields passed
\* validation: if some field is blank, not a number, out of range or no valid
\* option, predict is not called, whatever the other fields hold.
C1_NoPartialCommit ==
    (submitted /\ predictCalls # <<>>) => (~has_errors /\ BadFields = {})

\* C2: on submit every field is evaluated and one error is shown for each blank
\* or invalid field and for no other: the fields with an error are exactly the
\* blank-or-invalid ones, one error each.
C2_CompleteErrorList ==
    submitted =>
        /\ {messages[i].label : i \in FieldErrors} = {all_fields[f].label : f \in BadFields}
        /\ Cardinality(FieldErrors) = Cardinality(BadFields)

\* C3 as stated: with the model artifact absent, the form is rendered, the
\* "model not found" message is shown and no exception escapes main().
C3_FormRendersWithoutModel ==
    (~artifact /\ model_cache # Unset) =>
        (formRendered /\ ModelNotFound # {} /\ ~escaped)

\* C3 as amended: with the model artifact absent, every run of main() shows the
\* "model not found" message and returns before the form is rendered, so nothing
\* can be submitted and predict is never called; no exception escapes main().
C3_NoFormWithoutModel ==
    ~artifact =>
        /\ ~escaped
        /\ ~formRendered
        /\ ~submitted
        /\ predictCalls = <<>>
        /\ model_cache # Unset =>
              (model_cache = None /\ Cardinality(ModelNotFound) = 1 /\ Len(messages) = 1)

C3_Witness == ~artifact /\ model_cache = None /\ ModelNotFound # {}

\* C4: a failure raised by the classifier on a fully validated submission is
\* caught in main(): exactly one generic "error occurred during prediction"
\* message is shown, no exception leaves main() and no result banner is shown.
C4_PredictionFailureCaught ==
    (submitted /\ ~has_errors /\ predicted.raised) =>
        /\ ~escaped
        /\ Cardinality(PredictionFailed) = 1
        /\ Len(messages) = 1
        /\ NotLikelyBanner = {} /\ LikelyBanner = {}

C4_Witness == submitted /\ ~has_errors /\ predicted.raised /\ predictCalls # <<>>

\* C5: the vector passed to predict has one entry for each of the 24 fields, the
\* i-th being the encoding of the i-th field in declaration order.
C5_VectorInSchemaOrder ==
    \A c \in DOMAIN predictCalls :
        /\ Len(predictCalls[c]) = 24
        /\ \A i \in 1..24 :
              predictCalls[c][i] = EncodingOf(SchemaOrder[i], widgets[SchemaOrder[i]])

C5_Witness == predictCalls # <<>> /\ widgets["anemia"] = no

\* C6: a blank input is rejected with a "required field" error before either
\* validator runs: no validator is called with a blank input, and a blank field
\* has no entry in the validated inputs.
C6_BlankRejectedUpfront ==
    submitted =>
        /\ \A c \in DOMAIN validatorCalls : ~IsBlank(validatorCalls[c].value)
        /\ \A f \in FieldNames :
              IsBlank(widgets[f]) =>
                  /\ f \notin DOMAIN valid_inputs
                  /\ \E i \in Shown("error", "Please fill in") :
                        messages[i].label = all_fields[f].label

\* The three ways a submission can end.
ErrorListShown ==
    /\ FieldErrors # {}
    /\ NotLikelyBanner = {} /\ LikelyBanner = {}

LabelShown ==
    /\ FieldErrors = {}
    /\ Cardinality(NotLikelyBanner) + Cardinality(LikelyBanner) = 1
    /\ ~predicted.raised /\ predictCalls # <<>>
    /\ (NotLikelyBanner # {}) <=> (predicted.ret[1] = 1)

FailureShown ==
    /\ FieldErrors = {}
    /\ NotLikelyBanner = {} /\ LikelyBanner = {}
    /\ Cardinality(PredictionFailed) = 1

\* C10 as stated: a submission ends in exactly one of two ways: an error list
\* (validation errors, no banner) or a prediction label (no validation error, one
\* banner, NOT likely iff the label is 1).
C10_ErrorsOrLabel ==
    submitted => ((ErrorListShown \/ LabelShown) /\ ~(ErrorListShown /\ LabelShown))

\* C10 as amended: a submission ends in exactly one of three ways: an error list
\* (validation errors, no banner), a prediction label (no validation error, one
\* banner, NOT likely iff the label is 1) or, when the prediction failed, the
\* prediction-failure message alone; the form stays on the page for resubmission.
C10_ErrorsLabelOrFailure ==
    submitted =>
        /\ formRendered
        /\ ErrorListShown \/ LabelShown \/ FailureShown
        /\ ~(ErrorListShown /\ LabelShown)
        /\ ~(ErrorListShown /\ FailureShown)
        /\ ~(LabelShown /\ FailureShown)
        /\ FailureShown <=> predicted.raised
        /\ ErrorListShown <=> has_errors

C10_Witness == submitted /\ LabelShown /\ NotLikelyBanner # {}

(***************************************************************************)
(* Properties of the validators and the encoder                            *)
(***************************************************************************)
\* C7: validate_numeric_input accepts exactly the closed interval [min, max]: a
\* parsed value in it (the bounds included) is returned with no error, a parsed
\* value outside it is rejected with an error, and every result has exactly one
\* of value and error.
C7_ClosedInterval ==
    call.fn = "validate_numeric_input" =>
        /\ (call.result[1] = None) # (call.result[2] = None)
        /\ float(call.value) # ValueError =>
              IF InInterval(float(call.value), all_fields[call.field].min,
                            all_fields[call.field].max)
              THEN call.result = <<float(call.value), None>>
              ELSE call.result[1] = None

\* C8: validate_categorical_input accepts every case variant of a valid option
\* and returns the lower-case option, a member of the option set; it rejects
\* with an error every string that is no option in any case.
C8_CaseInsensitiveOptions ==
    call.fn = "validate_categorical_input" =>
        IF \E o \in Elems(all_fields[call.field].options) : SameIgnoringCase(call.value, o)
        THEN /\ call.result[2] = None
             /\ call.result[1] \in Elems(all_fields[call.field].options)
             /\ SameIgnoringCase(call.value, call.result[1])
        ELSE /\ call.result[1] = None
             /\ call.result[2] # None

C8_Witness ==
    /\ call.fn = "validate_categorical_input"
    /\ call.value \notin Elems(all_fields[call.field].options)
    /\ call.result[2] = None

\* C9: for every categorical field the keys of its encoding are its options and
\* the encoding maps them one-to-one onto {0, 1}; encode_input does not fail on
\* a value a validator returned, and returns a numeric value unchanged.
C9_EncodingTotalAndBijective ==
    /\ DOMAIN categorical_encodings = CategoricalFields
    /\ \A f \in CategoricalFields :
          /\ DOMAIN categorical_encodings[f] = Elems(all_fields[f].options)
          /\ \A o \in Elems(all_fields[f].options) : ~encode_input(f, o).raised
          /\ {encode_input(f, o).ret : o \in Elems(all_fields[f].options)} = {int(0), int(1)}
          /\ Cardinality(Elems(all_fields[f].options)) = 2
    /\ call.fn = "encode_input" =>
          /\ ~call.result.raised
          /\ call.field \in NumericFields => call.result.ret = call.value
          /\ call.field \in CategoricalFields =>
                call.result.ret = categorical_encodings[call.field][call.value]

C9_Witness ==
    /\ call.fn = "encode_input"
    /\ call.field \in CategoricalFields
    /\ ~call.result.raised
    /\ call.result.ret = int(0)

=============================================================================
